---------------------------- MODULE Spec2Model ----------------------------
(***************************************************************************)
(* A model of the semantic similarity subsystem of the legal intelligence  *)
(* system: the corpus file output/judgments.json, the embedding cache file *)
(* output/embeddings_jina.pkl, the SimilarityCaseFinder engine built from  *)
(* them, the operations that rewrite the corpus, and the ranking queries.  *)
(*                                                                         *)
(* A case is represented by its case_id; the composite text of a case is a *)
(* function of the case, so the row of the embedding matrix computed for a *)
(* case is represented by the case_id it was computed from, and a matrix   *)
(* by the sequence of its rows together with the model that computed it.   *)
(* The embedding backend, the file system and the sort used by np.argsort  *)
(* are environment: their outcomes are inputs drawn by the actions.        *)
(***************************************************************************)
EXTENDS Integers, Sequences, FiniteSets, TLC

VARIABLES
    judgments,  \* the corpus file output/judgments.json
    cache,      \* the cache file output/embeddings_jina.pkl
    engine,     \* the SimilarityCaseFinder instance the last operation built
    req,        \* the ranking request being served, if any
    last        \* what the last operation did and returned

vars == <<judgments, cache, engine, req, last>>

(***************************************************************************)
(* Bounds of the model.                                                    *)
(***************************************************************************)
\* case ids 1..MaxCases exist in the life-cycle specification
MaxCases == 2
\* engines of the ranking specification hold up to MaxRank cases and rows
MaxRank == 3
\* similarity scores are 0..MaxScore
MaxScore == 2

CaseIds == 1..MaxCases
Scores == 0..MaxScore
\* the topk values tried: negative, zero, below, at and above the corpus size
TopKs == (-1)..(MaxRank + 1)

Min(a, b) == IF a <= b THEN a ELSE b
Max(a, b) == IF a >= b THEN a ELSE b
Range(s) == {s[i] : i \in 1..Len(s)}
NoDup(s) == \A i, j \in 1..Len(s) : i # j => s[i] # s[j]
Reverse(s) == [i \in 1..Len(s) |-> s[Len(s) + 1 - i]]
SelectIn(s, S) == SelectSeq(s, LAMBDA x : x \in S)

\* duplicate-free sequences over a set of ids, of every length
RECURSIVE SeqsOfLen(_, _)
SeqsOfLen(S, n) ==
    IF n = 0 THEN {<<>>}
    ELSE {Append(s, x) : s \in SeqsOfLen(S, n - 1), x \in S}
NoDupSeqs(S) ==
    {s \in UNION {SeqsOfLen(S, n) : n \in 0..Cardinality(S)} : NoDup(s)}

(***************************************************************************)
(* Values.                                                                 *)
(***************************************************************************)
\* model_name's default in SimilarityCaseFinder.__init__, and the literal
\* that save_embeddings writes
DefaultModel == "jinaai/jina-embeddings-v2-base-en"
\* another model_name a caller may pass to the constructor
OtherModel == "other-model"
ModelNames == {DefaultModel, OtherModel}

\* self.embeddings = None
NoMatrix == [rows |-> <<>>, by |-> "None"]
IsNone(m) == m.by = "None"
\* the matrix model.encode returns for the composite texts of `cases`
Matrix(cases, model) == [rows |-> cases, by |-> model]

\* a corpus file that does not exist
MissingFile == [state |-> "missing", cases |-> <<>>]
CorpusFile(cases) == [state |-> "ok", cases |-> cases]
\* a corpus file cut short by a json.dump that failed part-way
PartialFile == [state |-> "partial", cases |-> <<>>]

NoCache ==
    [state |-> "missing", embeddings |-> NoMatrix, model_name |-> "None",
     num_cases |-> 0, removed |-> FALSE]
RemovedCache == [NoCache EXCEPT !.removed = TRUE]
\* a cache file cut short by a failed pickle.dump
TruncatedCache == [NoCache EXCEPT !.state = "corrupt"]

\* no instance: the constructor raised, or none was built yet
NoEngine ==
    [exists |-> FALSE, cases |-> <<>>, embeddings |-> NoMatrix,
     model_name |-> "None"]

NoReq ==
    [op |-> "none", qid |-> 0, exclude_self |-> FALSE, query_text |-> <<>>,
     topk |-> 0]

\* the record of an operation; every operation fills the fields it has
NoLast ==
    [op |-> "init", outcome |-> "ok",
     accessed |-> FALSE,   \* a SimilarityCaseFinder construction was attempted
     found |-> "none",     \* the cache file the construction found
     loaded |-> FALSE,     \* the matrix was taken from the cache file
     loadFailed |-> FALSE, \* reading an existing cache file failed
     computed |-> FALSE,   \* compute_embeddings called the backend
     backendFailed |-> FALSE, \* the backend raised during that call
     saved |-> FALSE,      \* save_embeddings wrote the whole cache file
     saveFailed |-> FALSE, \* save_embeddings caught an error
     embeddings |-> NoMatrix, \* self.embeddings when the construction ended
     encoded |-> FALSE,    \* the query was handed to the backend
     caught |-> "none",    \* the exception find_similar caught, if any
     sims |-> <<>>,        \* the similarities the backend produced
     status |-> 0,         \* HTTP status of a handler
     count |-> 0,          \* number of results
     results |-> <<>>,     \* the ranking returned by an engine query
     wrote |-> FALSE,      \* the corpus file was rewritten
     removed |-> FALSE]    \* an existing cache file was deleted


(***************************************************************************)
(* The environment of one engine construction: whether the embedding model *)
(* loads, whether an existing cache file can be read, whether the backend  *)
(* encodes the corpus, and how the write of the cache file ends.           *)
(***************************************************************************)
SaveOutcomes == {"ok", "open_fails", "dump_fails"}
Envs ==
    [modelLoads : BOOLEAN, readOk : BOOLEAN, backendOk : BOOLEAN,
     save : SaveOutcomes]

(***************************************************************************)
(* SimilarityCaseFinder                                                    *)
(***************************************************************************)
\* load_cases: the corpus, or [] when the file is missing or unreadable
load_cases(jfile) == IF jfile.state = "ok" THEN jfile.cases ELSE <<>>

\* a variant of compute_embeddings that keeps the rows encoded before the
\* backend failed and returns
compute_embeddings_Partial(self, backendOk) ==
    IF self.cases = <<>>
    THEN [self |-> self, raised |-> FALSE, computed |-> FALSE,
          failed |-> FALSE]
    ELSE IF backendOk
    THEN [self |-> [self EXCEPT !.embeddings =
                        Matrix(self.cases, self.model_name)],
          raised |-> FALSE, computed |-> TRUE, failed |-> FALSE]
    ELSE [self |-> [self EXCEPT !.embeddings =
                        Matrix(SubSeq(self.cases, 1, Len(self.cases) - 1),
                               self.model_name)],
          raised |-> FALSE, computed |-> TRUE, failed |-> TRUE]

\* compute_embeddings: no cases, nothing is computed and self.embeddings is
\* left as it is; a backend error resets self.embeddings to None and is
\* raised again
compute_embeddings(self, backendOk) ==
    IF self.cases = <<>>
    THEN [self |-> self, raised |-> FALSE, computed |-> FALSE,
          failed |-> FALSE]
    ELSE IF backendOk
    THEN [self |-> [self EXCEPT !.embeddings =
                        Matrix(self.cases, self.model_name)],
          raised |-> FALSE, computed |-> TRUE, failed |-> FALSE]
    ELSE [self |-> [self EXCEPT !.embeddings = NoMatrix],
          raised |-> TRUE, computed |-> TRUE, failed |-> TRUE]

\* the dictionary save_embeddings pickles
CacheRecord(self) ==
    [state |-> "ok", embeddings |-> self.embeddings,
     model_name |-> DefaultModel, num_cases |-> Len(self.cases),
     removed |-> FALSE]

\* a variant of save_embeddings that reports the save and writes nothing
save_embeddings_Skipped(self, cfile, save) ==
    IF IsNone(self.embeddings)
    THEN [cache |-> cfile, saved |-> FALSE, failed |-> FALSE]
    ELSE IF save = "ok"
    THEN [cache |-> cfile, saved |-> TRUE, failed |-> FALSE]
    ELSE IF save = "open_fails"
    THEN [cache |-> cfile, saved |-> FALSE, failed |-> TRUE]
    ELSE [cache |-> TruncatedCache, saved |-> FALSE, failed |-> TRUE]

\* save_embeddings: nothing without a matrix; open(..., 'wb') truncates the
\* file before pickle.dump fills it; every error is caught and printed
save_embeddings(self, cfile, save) ==
    IF IsNone(self.embeddings)
    THEN [cache |-> cfile, saved |-> FALSE, failed |-> FALSE]
    ELSE IF save = "ok"
    THEN [cache |-> CacheRecord(self), saved |-> TRUE, failed |-> FALSE]
    ELSE IF save = "open_fails"
    THEN [cache |-> cfile, saved |-> FALSE, failed |-> TRUE]
    ELSE [cache |-> TruncatedCache, saved |-> FALSE, failed |-> TRUE]

\* whether pickle.load and cache['embeddings'] succeed on the cache file
CacheLoads(cfile, readOk) == cfile.state = "ok" /\ readOk

\* what os.path.exists and the read find at the cache path
Found(cfile) ==
    IF cfile.state = "missing"
    THEN (IF cfile.removed THEN "removed" ELSE "missing")
    ELSE cfile.state

\* the outcome of load_or_compute_embeddings, of __init__ and of an access
Outcome(self, cfile, raised, loaded, loadFailed, c, w) ==
    [self |-> self, cache |-> cfile, raised |-> raised, loaded |-> loaded,
     loadFailed |-> loadFailed, computed |-> c.computed,
     backendFailed |-> c.failed, saved |-> w.saved, saveFailed |-> w.failed]

NotComputed == [computed |-> FALSE, raised |-> FALSE, failed |-> FALSE]
NotSaved == [saved |-> FALSE, failed |-> FALSE]

\* a variant of load_or_compute_embeddings that never reads the cache file
load_or_compute_embeddings_Always(self, cfile, env) ==
    LET c == compute_embeddings(self, env.backendOk)
    IN  IF c.raised
        THEN Outcome(c.self, cfile, TRUE, FALSE, FALSE, c, NotSaved)
        ELSE LET w == save_embeddings(c.self, cfile, env.save) IN
             Outcome(c.self, w.cache, FALSE, FALSE, FALSE, c, w)

\* a variant of load_or_compute_embeddings that lets the error of a failed
\* cache read reach its caller
load_or_compute_embeddings_RaiseOnRead(self, cfile, env) ==
    IF cfile.state # "missing" /\ CacheLoads(cfile, env.readOk)
    THEN Outcome([self EXCEPT !.embeddings = cfile.embeddings], cfile,
                 FALSE, TRUE, FALSE, NotComputed, NotSaved)
    ELSE IF cfile.state # "missing"
    THEN Outcome(self, cfile, TRUE, FALSE, TRUE, NotComputed, NotSaved)
    ELSE LET c == compute_embeddings(self, env.backendOk)
         IN  IF c.raised
             THEN Outcome(c.self, cfile, TRUE, FALSE, FALSE, c, NotSaved)
             ELSE LET w == save_embeddings(c.self, cfile, env.save) IN
                  Outcome(c.self, w.cache, FALSE, FALSE, FALSE, c, w)

\* load_or_compute_embeddings
load_or_compute_embeddings(self, cfile, env) ==
    IF cfile.state # "missing" /\ CacheLoads(cfile, env.readOk)
    THEN Outcome([self EXCEPT !.embeddings = cfile.embeddings], cfile,
                 FALSE, TRUE, FALSE, NotComputed, NotSaved)
    ELSE LET c == compute_embeddings(self, env.backendOk)
             failedRead == cfile.state # "missing"
         IN  IF c.raised
             THEN Outcome(c.self, cfile, TRUE, FALSE, failedRead, c, NotSaved)
             ELSE LET w == save_embeddings(c.self, cfile, env.save) IN
                  Outcome(c.self, w.cache, FALSE, FALSE, failedRead, c, w)

\* __init__: the model is loaded, then the cases, then the matrix. A raise
\* leaves the caller without an instance.
Construct(jfile, cfile, model_name, env) ==
    LET self0 == [exists |-> TRUE, cases |-> load_cases(jfile),
                  embeddings |-> NoMatrix, model_name |-> model_name]
        r == load_or_compute_embeddings(self0, cfile, env)
    IN  IF ~env.modelLoads
        THEN [Outcome(NoEngine, cfile, TRUE, FALSE, FALSE, NotComputed,
                      NotSaved)
                EXCEPT !.raised = "ModelLoadError"]
        ELSE IF r.raised
        THEN [r EXCEPT !.raised = "EmbeddingBackendFailure"]
        ELSE [r EXCEPT !.raised = "ok"]

\* what a construction may do, over every environment
Constructions(jfile, cfile, model_name) ==
    {Construct(jfile, cfile, model_name, env) : env \in Envs}

\* the record of an operation that attempted a construction on the cache
\* file cfile; the caller holds the instance only when __init__ returned
Accessed(op, cfile, c) ==
    [NoLast EXCEPT !.op = op, !.outcome = c.raised, !.accessed = TRUE,
                   !.found = Found(cfile),
                   !.loaded = c.loaded, !.loadFailed = c.loadFailed,
                   !.computed = c.computed, !.backendFailed = c.backendFailed,
                   !.saved = c.saved, !.saveFailed = c.saveFailed,
                   !.embeddings = c.self.embeddings]
Built(c) == IF c.raised = "ok" THEN c.self ELSE NoEngine

(***************************************************************************)
(* Ranking.  The similarities of the query to the rows of the matrix come  *)
(* from the backend and are an input, one score per row.                   *)
(***************************************************************************)
\* str.strip() on a text held as a sequence of characters
RECURSIVE LStrip(_)
LStrip(t) == IF t # <<>> /\ Head(t) = " " THEN LStrip(Tail(t)) ELSE t
Strip(t) == Reverse(LStrip(Reverse(LStrip(t))))

\* the query texts tried: empty, whitespace-only, and with content
QueryTexts == {<<>>, <<" ", " ">>, <<"q">>, <<" ", "q", " ">>}

\* the orders in which the elements of S can be listed
RECURSIVE PermSeqs(_)
PermSeqs(S) ==
    IF S = {} THEN {<<>>}
    ELSE UNION {{<<x>> \o p : p \in PermSeqs(S \ {x})} : x \in S}

\* the permutations of 1..n, for every number n of rows a matrix may have
AllPerms == UNION {PermSeqs(1..n) : n \in 0..Max(MaxRank, MaxCases)}

\* np.argsort(similarities): an index order that sorts the scores ascending.
\* The default kind is not stable, so equal scores come in any order.
ArgSorts(sims) ==
    {p \in AllPerms :
        /\ Len(p) = Len(sims)
        /\ \A i, j \in 1..Len(sims) : i < j => sims[p[i]] <= sims[p[j]]}

\* the similarity vectors the backend may produce against a matrix of n rows
SimVectors(n) == [1..n -> Scores]

\* seq[:k]
PySlice(s, k) ==
    IF k >= 0 THEN SubSeq(s, 1, Min(k, Len(s)))
    ELSE SubSeq(s, 1, Max(Len(s) + k, 0))

\* [(self.cases[idx], float(similarities[idx])) for idx in top_indices]
ResultsOf(self, sims, top_indices) ==
    [i \in 1..Len(top_indices) |->
        [idx |-> top_indices[i], case_id |-> self.cases[top_indices[i]],
         score |-> sims[top_indices[i]]]]

\* an index of the matrix that self.cases does not have
OutOfRange(self, indices) == \E i \in 1..Len(indices) : indices[i] > Len(self.cases)

QueryResult(outcome, caught, results, encoded) ==
    [outcome |-> outcome, caught |-> caught, results |-> results,
     encoded |-> encoded]

\* a variant of find_similar that cuts the ranking to topk before it drops
\* the query case
find_similar_SliceFirst(self, qid, topk, exclude_self, backendOk, sims, order) ==
    LET top_indices == PySlice(Reverse(order), topk)
        kept == SelectSeq(top_indices, LAMBDA idx : self.cases[idx] # qid)
        chosen == IF exclude_self THEN kept ELSE top_indices
    IN  IF IsNone(self.embeddings) THEN QueryResult("ok", "none", <<>>, FALSE)
        ELSE IF ~backendOk THEN QueryResult("ok", "BackendError", <<>>, TRUE)
        ELSE IF OutOfRange(self, top_indices)
        THEN QueryResult("ok", "IndexError", <<>>, TRUE)
        ELSE QueryResult("ok", "none", ResultsOf(self, sims, chosen), TRUE)

\* find_similar: every exception is caught and [] is returned
find_similar(self, qid, topk, exclude_self, backendOk, sims, order) ==
    LET top_indices == Reverse(order)
        kept == SelectSeq(top_indices, LAMBDA idx : self.cases[idx] # qid)
        chosen == PySlice(IF exclude_self THEN kept ELSE top_indices, topk)
    IN  IF IsNone(self.embeddings) THEN QueryResult("ok", "none", <<>>, FALSE)
        ELSE IF ~backendOk THEN QueryResult("ok", "BackendError", <<>>, TRUE)
        ELSE IF exclude_self /\ OutOfRange(self, top_indices)
        THEN QueryResult("ok", "IndexError", <<>>, TRUE)
        ELSE IF OutOfRange(self, chosen)
        THEN QueryResult("ok", "IndexError", <<>>, TRUE)
        ELSE QueryResult("ok", "none", ResultsOf(self, sims, chosen), TRUE)

\* a variant of find_similar_by_text that reads topk entries of the ranking
\* one by one, and so fails on a topk beyond the number of rows
find_similar_by_text_Indexed(self, query_text, topk, backendOk, sims, order) ==
    LET chosen == PySlice(Reverse(order), topk)
    IN  IF IsNone(self.embeddings)
        THEN QueryResult("ValueError: No embeddings available", "none",
                         <<>>, FALSE)
        ELSE IF query_text = <<>> \/ Strip(query_text) = <<>>
        THEN QueryResult("ValueError: Query text cannot be empty", "none",
                         <<>>, FALSE)
        ELSE IF ~backendOk
        THEN QueryResult("BackendError", "none", <<>>, TRUE)
        ELSE IF topk > Len(order) \/ OutOfRange(self, chosen)
        THEN QueryResult("IndexError", "none", <<>>, TRUE)
        ELSE QueryResult("ok", "none", ResultsOf(self, sims, chosen), TRUE)

\* a variant of find_similar_by_text that encodes the query before it looks
\* at the text
find_similar_by_text_EncodeFirst(self, query_text, topk, backendOk, sims, order) ==
    LET chosen == PySlice(Reverse(order), topk)
    IN  IF IsNone(self.embeddings)
        THEN QueryResult("ValueError: No embeddings available", "none",
                         <<>>, FALSE)
        ELSE IF ~backendOk
        THEN QueryResult("BackendError", "none", <<>>, TRUE)
        ELSE IF query_text = <<>> \/ Strip(query_text) = <<>>
        THEN QueryResult("ValueError: Query text cannot be empty", "none",
                         <<>>, TRUE)
        ELSE IF OutOfRange(self, chosen)
        THEN QueryResult("IndexError", "none", <<>>, TRUE)
        ELSE QueryResult("ok", "none", ResultsOf(self, sims, chosen), TRUE)

\* find_similar_by_text: every exception is printed and raised again
find_similar_by_text(self, query_text, topk, backendOk, sims, order) ==
    LET chosen == PySlice(Reverse(order), topk)
    IN  IF IsNone(self.embeddings)
        THEN QueryResult("ValueError: No embeddings available", "none",
                         <<>>, FALSE)
        ELSE IF query_text = <<>> \/ Strip(query_text) = <<>>
        THEN QueryResult("ValueError: Query text cannot be empty", "none",
                         <<>>, FALSE)
        ELSE IF ~backendOk
        THEN QueryResult("BackendError", "none", <<>>, TRUE)
        ELSE IF OutOfRange(self, chosen)
        THEN QueryResult("IndexError", "none", <<>>, TRUE)
        ELSE QueryResult("ok", "none", ResultsOf(self, sims, chosen), TRUE)

\* a variant in which a query that fails drops the matrix, as the except
\* blocks of compute_embeddings do
AfterQuery_Reset(self, a) ==
    IF a.outcome # "ok" \/ a.caught # "none"
    THEN [self EXCEPT !.embeddings = NoMatrix]
    ELSE self

\* the engine after a query answered a: find_similar and find_similar_by_text
\* assign neither self.embeddings nor self.cases, on any path
AfterQuery(self, a) == self

\* the names the design gives the two ValueErrors of find_similar_by_text
CacheUnavailable == "ValueError: No embeddings available"
InvalidQuery == "ValueError: Query text cannot be empty"

(***************************************************************************)
(* The life cycle of the corpus file, the cache file and the engine.       *)
(***************************************************************************)
\* the cases a run of the ingestion hands on: preprocess.process returns
\* them free of duplicate case_ids
Batches == NoDupSeqs(CaseIds)

\* no request is being served
Idle == req.op = "none"

Init ==
    /\ judgments = MissingFile
    /\ cache = NoCache
    /\ engine = NoEngine
    /\ req = NoReq
    /\ last = NoLast

\* a caller builds SimilarityCaseFinder(model_name=...)
SimilarityCaseFinder ==
    /\ Idle
    /\ \E model_name \in ModelNames :
      \E c \in Constructions(judgments, cache, model_name) :
        /\ engine' = Built(c)
        /\ cache' = c.cache
        /\ last' = Accessed("construct", cache, c)
        /\ UNCHANGED <<judgments, req>>

\* the existing corpus followed by the cases whose case_id it does not hold
Merge(existing_cases, processed_cases) ==
    existing_cases \o SelectIn(processed_cases, CaseIds \ Range(existing_cases))

\* os.remove of the cache file when it exists
Removed(cfile) == IF cfile.state = "missing" THEN cfile ELSE RemovedCache

\* POST /api/download: merge the processed cases into the corpus file, then
\* delete the cache files.  The handler answers 500 when nothing was
\* fetched, when the existing corpus file cannot be parsed, and when the
\* write of the corpus fails; open(..., 'w') has truncated the file by then.
download_and_process ==
    /\ Idle
    /\ \E fetched \in BOOLEAN, processed_cases \in Batches,
          written \in BOOLEAN :
        IF ~fetched
        THEN /\ last' = [NoLast EXCEPT !.op = "download", !.status = 500,
                                       !.outcome = "No cases downloaded"]
             /\ engine' = NoEngine
             /\ UNCHANGED <<judgments, cache, req>>
        ELSE IF judgments.state = "partial"
        THEN /\ last' = [NoLast EXCEPT !.op = "download", !.status = 500,
                                       !.outcome = "JSONDecodeError"]
             /\ engine' = NoEngine
             /\ UNCHANGED <<judgments, cache, req>>
        ELSE IF ~written
        THEN /\ judgments' = PartialFile
             /\ last' = [NoLast EXCEPT !.op = "download", !.status = 500,
                                       !.outcome = "OSError"]
             /\ engine' = NoEngine
             /\ UNCHANGED <<cache, req>>
        ELSE LET existing_cases == load_cases(judgments)
                 all_cases == Merge(existing_cases, processed_cases)
             IN  /\ judgments' = CorpusFile(all_cases)
                 /\ cache' = Removed(cache)
                 /\ last' = [NoLast EXCEPT !.op = "download", !.status = 200,
                                !.wrote = TRUE,
                                !.removed = (cache.state # "missing")]
                 /\ engine' = NoEngine
                 /\ UNCHANGED req

\* main.run_complete_pipeline: overwrite the corpus file with the processed
\* cases, then build the similarity index
run_complete_pipeline ==
    /\ Idle
    /\ \E processed_cases \in Batches :
      \E c \in Constructions(CorpusFile(processed_cases), cache, DefaultModel) :
            /\ judgments' = CorpusFile(processed_cases)
            /\ engine' = Built(c)
            /\ cache' = c.cache
            /\ last' = [Accessed("pipeline", cache, c) EXCEPT !.wrote = TRUE]
            /\ UNCHANGED req

\* LocalPDFProcessor.process_folder: the PDFs whose case_id the corpus does
\* not hold are extracted; save_cases rewrites the corpus when any succeeded.
\* new_cases are the cases extracted, in the order of the folder.
process_folder ==
    /\ Idle
    /\ \E new_cases \in NoDupSeqs(CaseIds \ Range(load_cases(judgments))) :
        /\ judgments' = IF new_cases # <<>>
                        THEN CorpusFile(load_cases(judgments) \o new_cases)
                        ELSE judgments
        /\ last' = [NoLast EXCEPT !.op = "process_folder",
                                  !.wrote = (new_cases # <<>>)]
        /\ engine' = NoEngine
        /\ UNCHANGED <<cache, req>>

\* the answers find_similar_by_text may give on an engine: the backend is
\* consulted only for a query that passed the two checks, and produces the
\* similarities only when it does not fail
TextAnswers(self, query_text, top_k) ==
    LET n == Len(self.embeddings.rows) IN
    IF IsNone(self.embeddings) \/ Strip(query_text) = <<>>
    THEN {find_similar_by_text(self, query_text, top_k, TRUE, <<>>, <<>>)}
    ELSE {find_similar_by_text(self, query_text, top_k, FALSE, <<>>, <<>>)}
         \cup UNION {{find_similar_by_text(self, query_text, top_k, TRUE,
                                           sims, order) :
                         order \in ArgSorts(sims)} : sims \in SimVectors(n)}

\* top_k of a request: absent (the default 5), or a number the client sent
ApiTopKs == {-1, 0, 1, 5}

\* POST /api/similarity, first half: get_similarity_engine builds a new
\* engine for the request; an exception ends the request with status 500
find_similar_cases ==
    /\ Idle
    /\ \E query_text \in QueryTexts, top_k \in ApiTopKs :
        IF judgments.state = "missing"
        THEN /\ last' = [NoLast EXCEPT !.op = "similarity", !.status = 404,
                                       !.outcome = "No data available"]
             /\ engine' = NoEngine
             /\ UNCHANGED <<judgments, cache, req>>
        ELSE \E c \in Constructions(judgments, cache, DefaultModel) :
             /\ engine' = Built(c)
             /\ cache' = c.cache
             /\ UNCHANGED judgments
             /\ IF c.raised # "ok"
                THEN /\ last' = [Accessed("similarity", cache, c) EXCEPT !.status = 500]
                     /\ UNCHANGED req
                ELSE /\ last' = Accessed("similarity", cache, c)
                     /\ req' = [NoReq EXCEPT !.op = "similarity",
                                             !.query_text = query_text,
                                             !.topk = top_k]

\* POST /api/similarity, second half: the query on the engine just built,
\* and the response
find_similar_cases_respond ==
    /\ req.op = "similarity"
    /\ req' = NoReq
    /\ UNCHANGED <<judgments, cache>>
    /\ IF req.query_text = <<>>
       THEN /\ last' = [last EXCEPT !.status = 400,
                                    !.outcome = "query_text is required"]
            /\ UNCHANGED engine
       ELSE \E a \in TextAnswers(engine, req.query_text, req.topk) :
               /\ last' = [last EXCEPT !.outcome = a.outcome,
                                       !.encoded = a.encoded,
                                       !.status = IF a.outcome = "ok"
                                                  THEN 200 ELSE 500,
                                       !.count = Len(a.results)]
               /\ engine' = AfterQuery(engine, a)

Next ==
    \/ SimilarityCaseFinder
    \/ download_and_process
    \/ run_complete_pipeline
    \/ process_folder
    \/ find_similar_cases
    \/ find_similar_cases_respond

Spec == Init /\ [][Next]_vars

(***************************************************************************)
(* Ranking queries on an engine.  The specification starts from an engine  *)
(* and a request and serves the request; the backend's similarities and    *)
(* the order np.argsort gives equal scores are drawn when it is served.    *)
(***************************************************************************)
\* the case with no case_id, whose .get('case_id') is None
NoCaseId == 0

\* the cases 1..n in corpus order
FirstCases(n) == [i \in 1..n |-> i]

\* engines as a construction leaves them: no matrix, a matrix with a row per
\* case, or the matrix of a cache computed from another corpus
RankEngines ==
    {[exists |-> TRUE, cases |-> FirstCases(n), embeddings |-> m,
      model_name |-> DefaultModel] :
        n \in 0..MaxRank,
        m \in {NoMatrix} \cup
              {Matrix(FirstCases(r), DefaultModel) : r \in 1..MaxRank}}

RankRequests ==
    {[NoReq EXCEPT !.op = "find_similar", !.qid = q, !.exclude_self = x,
                   !.topk = k] :
        q \in {NoCaseId} \cup (1..MaxRank), x \in BOOLEAN, k \in TopKs}
    \cup
    {[NoReq EXCEPT !.op = "find_similar_by_text", !.query_text = t,
                   !.topk = k] : t \in QueryTexts, k \in TopKs}

InitRank ==
    /\ engine \in RankEngines
    /\ req \in RankRequests
    /\ judgments = CorpusFile(engine.cases)
    /\ cache = NoCache
    /\ last = NoLast

\* what an engine query leaves in `last`
Answered(op, a, sims) ==
    [NoLast EXCEPT !.op = op, !.outcome = a.outcome, !.caught = a.caught,
                   !.encoded = a.encoded, !.results = a.results,
                   !.count = Len(a.results), !.sims = sims]

\* engine.find_similar(query_case, topk, exclude_self)
RankByCase ==
    /\ req.op = "find_similar"
    /\ last.op = "init"
    /\ \E backendOk \in BOOLEAN,
          sims \in SimVectors(Len(engine.embeddings.rows)) :
         \E order \in ArgSorts(sims) :
            LET a == find_similar(engine, req.qid, req.topk,
                                  req.exclude_self, backendOk, sims, order)
            IN  /\ last' = Answered("find_similar", a, sims)
                /\ engine' = AfterQuery(engine, a)
    /\ UNCHANGED <<judgments, cache, req>>

\* engine.find_similar_by_text(query_text, topk)
RankByText ==
    /\ req.op = "find_similar_by_text"
    /\ last.op = "init"
    /\ \E backendOk \in BOOLEAN,
          sims \in SimVectors(Len(engine.embeddings.rows)) :
         \E order \in ArgSorts(sims) :
            LET a == find_similar_by_text(engine, req.query_text, req.topk,
                                          backendOk, sims, order)
            IN  /\ last' = Answered("find_similar_by_text", a, sims)
                /\ engine' = AfterQuery(engine, a)
    /\ UNCHANGED <<judgments, cache, req>>

NextRank == RankByCase \/ RankByText

SpecRank == InitRank /\ [][NextRank]_vars

(***************************************************************************)
(* Properties of the ranking queries, checked under SpecRank.              *)
(***************************************************************************)
\* a ranking query has been served
QueryDone == last.op \in {"find_similar", "find_similar_by_text"}

\* the engine holds a matrix with one row per case of its case list
ValidEngine(self) ==
    /\ ~IsNone(self.embeddings)
    /\ self.embeddings.rows = self.cases

\* a query text that is empty or whitespace only
Blank(t) == Strip(t) = <<>>

\* the number of cases of the engine whose case_id is not qid
Others(self, qid) ==
    Cardinality({i \in 1..Len(self.cases) : self.cases[i] # qid})

\* C2: find_similar and find_similar_by_text return their results in
\* descending similarity order, and of two results with equal similarity the
\* one with the lower corpus index comes first.
C2_DescendingTiesByIndex ==
    \A i, j \in 1..Len(last.results) :
        i < j =>
            \/ last.results[i].score > last.results[j].score
            \/ /\ last.results[i].score = last.results[j].score
               /\ last.results[i].idx < last.results[j].idx

\* C3: find_similar with exclude_self never returns a case whose case_id is
\* the query case's, whatever topk and the similarities are; and the excluded
\* case takes no result slot: on an engine with a row per case, for topk >= 0
\* and a backend that answers, the result holds min(topk, number of other
\* cases) cases.
C3_ExcludeSelf ==
    (last.op = "find_similar" /\ req.exclude_self) =>
        /\ \A i \in 1..Len(last.results) : last.results[i].case_id # req.qid
        /\ (ValidEngine(engine) /\ req.topk >= 0
                /\ last.caught # "BackendError") =>
              Len(last.results) = Min(req.topk, Others(engine, req.qid))

\* the query case is in the corpus, its own row alone has the maximal
\* similarity, and the result still fills all of its topk slots with the
\* other cases
C3_Witness ==
    /\ last.op = "find_similar" /\ req.exclude_self
    /\ ValidEngine(engine)
    /\ req.qid \in Range(engine.cases)
    /\ last.sims[req.qid] = MaxScore
    /\ \A i \in 1..Len(last.sims) : i # req.qid => last.sims[i] < MaxScore
    /\ req.topk = Len(engine.cases) - 1
    /\ req.topk >= 1
    /\ Len(last.results) = req.topk

\* C4: for K >= 0 on an engine with a row per case of its N cases,
\* find_similar returns at most K results, and find_similar_by_text raises
\* nothing but the rejection of a blank query or the backend's own failure
\* and otherwise returns exactly min(K, N) results with no case repeated;
\* so K > N returns the whole corpus ranked and no error.
C4_TopK ==
    (QueryDone /\ req.topk >= 0 /\ ValidEngine(engine)) =>
        /\ Len(last.results) <= req.topk
        /\ last.op = "find_similar_by_text" =>
            /\ last.outcome \in {"ok", InvalidQuery, "BackendError"}
            /\ last.outcome = InvalidQuery => Blank(req.query_text)
            /\ last.outcome = "ok" =>
                /\ Len(last.results) = Min(req.topk, Len(engine.cases))
                /\ \A i, j \in 1..Len(last.results) :
                      i # j => /\ last.results[i].idx # last.results[j].idx
                               /\ last.results[i].case_id
                                      # last.results[j].case_id

\* a text query with K above the corpus size returned all N >= 2 cases
C4_Witness ==
    /\ last.op = "find_similar_by_text" /\ last.outcome = "ok"
    /\ ValidEngine(engine)
    /\ req.topk > Len(engine.cases)
    /\ Len(engine.cases) >= 2
    /\ Len(last.results) = Len(engine.cases)

\* C5, as stated: find_similar_by_text with an empty or whitespace-only text
\* raises InvalidQuery, does not invoke the backend, and leaves the matrix
\* and the case list unchanged.
C5_BlankRaisesInvalidQuery ==
    [][(last'.op = "find_similar_by_text" /\ Blank(req.query_text)) =>
          /\ last'.outcome = InvalidQuery
          /\ ~last'.encoded
          /\ engine' = engine]_vars

\* C5, amended: with a blank text find_similar_by_text raises InvalidQuery
\* when the engine holds a matrix, and the "No embeddings available" error
\* when it holds none; in both cases the backend is not invoked and the
\* matrix and the case list are unchanged.
C5_BlankRejected ==
    [][(last'.op = "find_similar_by_text" /\ Blank(req.query_text)) =>
          /\ last'.outcome = IF IsNone(engine.embeddings)
                             THEN CacheUnavailable ELSE InvalidQuery
          /\ ~last'.encoded
          /\ engine' = engine]_vars

\* a whitespace-only text was rejected on an engine that holds a matrix
C5_Witness ==
    /\ last.op = "find_similar_by_text"
    /\ req.query_text # <<>> /\ Blank(req.query_text)
    /\ ~IsNone(engine.embeddings)
    /\ last.outcome = InvalidQuery

\* C6: a ranking query on an engine without a matrix fails with
\* CacheUnavailable.
C6_NoMatrixFails ==
    (QueryDone /\ IsNone(engine.embeddings)) => last.outcome = CacheUnavailable


(***************************************************************************)
(* Properties of the cache life cycle, checked under Spec.                 *)
(***************************************************************************)
\* the step is an engine access: a construction of SimilarityCaseFinder, by
\* a caller, by the pipeline or by get_similarity_engine
Access == Idle /\ last'.accessed

\* C1: an access that finds a readable cache file uses its matrix if and
\* only if the stored num_cases equals the number of loaded cases and the
\* stored model_name equals the configured one.
C1_CacheUsedIffValid ==
    [][(Access /\ last'.outcome = "ok" /\ cache.state # "missing"
            /\ ~last'.loadFailed) =>
          (last'.loaded <=>
              /\ cache.num_cases = Len(engine'.cases)
              /\ cache.model_name = engine'.model_name)]_vars

\* C7, as stated: over an unchanged corpus, an access that follows an access
\* whose compute succeeded does not compute again.
C7_AtMostOneCompute ==
    [][(Access /\ last.accessed /\ last.computed /\ ~last.backendFailed
            /\ judgments' = judgments) =>
          ~last'.computed]_vars

\* C7, amended: over an unchanged corpus, once a compute has succeeded and
\* its cache file is persisted, an access that finds the file in place and
\* can read it loads the persisted matrix, does not call the backend, and
\* leaves the file as it is.
C7_LoadsPersistedCache ==
    [][(Access /\ judgments' = judgments /\ cache.state = "ok"
            /\ last'.outcome # "ModelLoadError" /\ ~last'.loadFailed) =>
          /\ last'.loaded
          /\ ~last'.computed
          /\ last'.embeddings = cache.embeddings
          /\ cache' = cache]_vars

\* an access loaded the cache persisted from the corpus now on disk
C7_Witness ==
    /\ last.accessed /\ last.found = "ok"
    /\ last.loaded /\ ~last.computed
    /\ load_cases(judgments) # <<>>
    /\ cache.embeddings.rows = load_cases(judgments)

\* C8, as stated: the access that follows the deletion of the cache file
\* recomputes the embeddings and persists a cache file whose num_cases is
\* the current number of corpus cases.
C8_RecomputesAfterDelete ==
    [][(Access /\ last.op = "download" /\ last.removed) =>
          /\ last'.computed /\ last'.saved
          /\ cache'.state = "ok"
          /\ cache'.num_cases = Len(load_cases(judgments'))]_vars

\* C8, amended: an access that finds the cache file deleted recomputes and
\* persists a cache file of the current corpus, with its number of cases,
\* when the corpus is not empty and the construction and the write of the
\* file succeed; over an empty corpus it computes and persists nothing.
C8_RecomputesWhenItCan ==
    [][(Access /\ Found(cache) = "removed") =>
          LET cases == load_cases(judgments') IN
          /\ (cases # <<>> /\ last'.outcome = "ok" /\ ~last'.saveFailed) =>
                /\ last'.computed /\ last'.saved
                /\ cache'.state = "ok"
                /\ cache'.num_cases = Len(cases)
                /\ cache'.embeddings.rows = cases
          /\ cases = <<>> => (~last'.computed /\ cache' = cache)]_vars

\* an access found the cache file deleted and persisted a new one with the
\* number of cases of the corpus
C8_Witness ==
    /\ last.accessed /\ last.found = "removed"
    /\ last.computed /\ last.saved
    /\ cache.state = "ok"
    /\ cache.num_cases = Len(load_cases(judgments))
    /\ cache.num_cases >= 1

\* C9: an operation that rewrites the corpus file leaves no cache file, and
\* no access loads a cache computed from another corpus than the one on disk.
C9_RewriteDeletesCache ==
    /\ (last.op \in {"download", "process_folder"} /\ last.wrote) =>
          cache.state = "missing"
    /\ (last.accessed /\ last.loaded) =>
          cache.embeddings.rows = load_cases(judgments)

\* C10: when the backend fails in compute_embeddings, the construction
\* raises to its caller (the API answers 500), the matrix in memory is None,
\* save_embeddings writes nothing and the cache file is as it was.
C10_BackendFailure ==
    [][(Access /\ last'.backendFailed) =>
          /\ last'.outcome = "EmbeddingBackendFailure"
          /\ ~engine'.exists
          /\ IsNone(last'.embeddings)
          /\ ~last'.saved /\ ~last'.saveFailed
          /\ last'.op = "similarity" => last'.status = 500
          /\ cache' = cache]_vars

\* the backend failed in an access that could not read a complete cache
\* file, and that file is still on disk
C10_Witness ==
    /\ last.accessed /\ last.backendFailed
    /\ last.found = "ok" /\ last.loadFailed
    /\ cache.state = "ok"
    /\ ~IsNone(cache.embeddings)


\* C11: the cache file path never holds a half-written file: it holds no
\* file or a complete cache.
C11_CacheFileComplete == cache.state \in {"missing", "ok"}

C16_DistinctErrors ==
    (last.op = "similarity"
        /\ last.outcome \in {InvalidQuery, CacheUnavailable}) =>
            last.status # 500


\* C13: a cache file never coexists with a partially written corpus file.
C13_NoCacheBesidePartialCorpus ==
    judgments.state = "partial" => cache.state = "missing"


\* C15: a ranking query, whether it returns or raises, leaves the matrix,
\* the case list and the cache file unchanged.
C15_QueriesReadOnly ==
    [][(last'.op \in {"find_similar", "find_similar_by_text"}) =>
          /\ engine'.embeddings = engine.embeddings
          /\ engine'.cases = engine.cases
          /\ cache' = cache
          /\ judgments' = judgments]_vars

\* a query failed on an engine with a row per case, which still has them
C15_Witness ==
    /\ QueryDone
    /\ last.outcome = "BackendError" \/ last.caught = "BackendError"
    /\ ValidEngine(engine)
    /\ Len(engine.cases) >= 2


(***************************************************************************)
(* A construction running beside /api/download.  The server has no lock:   *)
(* the construction of one request reads the corpus and computes, a        *)
(* download of another request rewrites the corpus and deletes the cache,  *)
(* and the construction then saves what it computed.  `engine` is the      *)
(* instance under construction, req.op = "saving" while its matrix is      *)
(* computed and not yet saved; `last` keeps what either thread finished.   *)
(***************************************************************************)
\* a complete cache file of a corpus, as an earlier construction saved it
CacheOf(cases) ==
    CacheRecord([exists |-> TRUE, cases |-> cases,
                 embeddings |-> Matrix(cases, DefaultModel),
                 model_name |-> DefaultModel])

InitConc ==
    /\ \E cases \in Batches :
        /\ judgments = CorpusFile(cases)
        /\ cache \in {NoCache} \cup
                     (IF cases = <<>> THEN {} ELSE {CacheOf(cases)})
    /\ engine = NoEngine
    /\ req = NoReq
    /\ last = NoLast

\* __init__ of a request's engine up to the end of compute_embeddings: the
\* model and the cases are loaded; a readable cache ends the construction,
\* otherwise the matrix is computed and is still to be saved
construct_begin ==
    /\ req.op = "none"
    /\ \E env \in [modelLoads : BOOLEAN, readOk : BOOLEAN,
                    backendOk : BOOLEAN] :
        LET self0 == [exists |-> TRUE, cases |-> load_cases(judgments),
                      embeddings |-> NoMatrix, model_name |-> DefaultModel]
            c == compute_embeddings(self0, env.backendOk)
        IN  IF ~env.modelLoads
               THEN /\ engine' = NoEngine
                    /\ last' = [last EXCEPT !.accessed = TRUE,
                                            !.outcome = "ModelLoadError"]
                    /\ UNCHANGED req
               ELSE IF cache.state # "missing" /\ CacheLoads(cache, env.readOk)
               THEN /\ engine' = [self0 EXCEPT !.embeddings = cache.embeddings]
                    /\ last' = [last EXCEPT !.accessed = TRUE, !.loaded = TRUE,
                                            !.outcome = "ok"]
                    /\ UNCHANGED req
               ELSE IF c.raised
               THEN /\ engine' = NoEngine
                    /\ last' = [last EXCEPT !.accessed = TRUE,
                                    !.outcome = "EmbeddingBackendFailure"]
                    /\ UNCHANGED req
               ELSE /\ engine' = c.self
                    /\ req' = [NoReq EXCEPT !.op = "saving"]
                    /\ UNCHANGED last
    /\ UNCHANGED <<judgments, cache>>

\* the rest of load_or_compute_embeddings: save_embeddings, on the cache
\* path as it is by now
construct_save ==
    /\ req.op = "saving"
    /\ \E save \in SaveOutcomes :
        LET w == save_embeddings(engine, cache, save) IN
        /\ cache' = w.cache
        /\ last' = [last EXCEPT !.accessed = TRUE, !.outcome = "ok",
                                !.loaded = FALSE,
                                !.computed = ~IsNone(engine.embeddings),
                                !.saved = w.saved]
    /\ req' = NoReq
    /\ UNCHANGED <<judgments, engine>>

\* POST /api/download of another request, at any moment of the construction
concurrent_download ==
    /\ \E processed_cases \in Batches :
        /\ judgments' = CorpusFile(Merge(load_cases(judgments),
                                         processed_cases))
        /\ cache' = Removed(cache)
        /\ last' = [last EXCEPT !.wrote = TRUE,
                                !.removed = (cache.state # "missing")]
    /\ UNCHANGED <<engine, req>>

NextConc == construct_begin \/ construct_save \/ concurrent_download

SpecConc == InitConc /\ [][NextConc]_vars

\* C14: once a construction and a download have both finished, a cache file
\* on disk was computed from the corpus on disk: one row per case, and the
\* stored case count is the corpus's.
C14_CacheMatchesCorpus ==
    (req.op = "none" /\ last.accessed /\ last.wrote /\ cache.state = "ok") =>
        /\ cache.embeddings.rows = load_cases(judgments)
        /\ cache.num_cases = Len(load_cases(judgments))


(***************************************************************************)
(* Texts.  A text is a sequence of tokens, each a word or a run of spaces, *)
(* and stands for the string of its tokens one after the other.  A token   *)
(* [w, n] with n = Len(w) is the word w itself; with n > Len(w) it is the  *)
(* one-character word w repeated n times, which keeps long texts short to  *)
(* write.  Character positions and lengths are those of the string.        *)
(***************************************************************************)
Tok(w, n) == [w |-> w, n |-> n]
Word(w) == Tok(w, Len(w))
Sp(n) == Tok(" ", n)
IsSpace(tok) == tok.w = " "

\* len(text)
RECURSIVE CharLen(_)
CharLen(t) == IF t = <<>> THEN 0 ELSE Head(t).n + CharLen(Tail(t))

\* not text.strip(): nothing but whitespace
IsBlank(t) == \A i \in 1..Len(t) : IsSpace(t[i])

\* the first r characters of a token, 0 < r < tok.n
Frag(tok, r) ==
    IF tok.n = Len(tok.w) THEN Tok(SubSeq(tok.w, 1, r), r) ELSE Tok(tok.w, r)

\* text[:cap]
RECURSIVE Cut(_, _)
Cut(t, cap) ==
    IF t = <<>> \/ cap <= 0 THEN <<>>
    ELSE IF Head(t).n <= cap
    THEN <<Head(t)>> \o Cut(Tail(t), cap - Head(t).n)
    ELSE <<Frag(Head(t), cap)>>

\* ' '.join(parts), for a sequence of texts
RECURSIVE Join(_)
Join(parts) ==
    IF parts = <<>> THEN <<>>
    ELSE IF Len(parts) = 1 THEN parts[1]
    ELSE parts[1] \o <<Sp(1)>> \o Join(Tail(parts))

\* the words of a text joined by single spaces
Sentence(words) == Join([i \in 1..Len(words) |-> <<Word(words[i])>>])

(***************************************************************************)
(* normalize_legal_terms, on the texts that can be written with the words  *)
(* of Vocabulary: abbreviations are written without inner spaces, numbers  *)
(* are "302" and its prefixes, and the statute names are capitalised as in *)
(* the patterns.                                                           *)
(***************************************************************************)
Numbers == {"302", "30", "3"}
SectionWords == {"Section", "section", "SECTION"}

\* the two rewrites of dotted capitals, on one word
Undot(tok) ==
    IF tok.w = "I.P.C" THEN Word("IPC")
    ELSE IF tok.w = "I.P." THEN Word("IP.")
    ELSE IF tok.w = "I.P" THEN Word("IP")
    ELSE IF tok.w = "A.B" THEN Word("AB")
    ELSE tok
RemoveDots(t) == [i \in 1..Len(t) |-> Undot(t[i])]

\* re.sub(r'\bSection\s+(\d+[A-Z]?)\b', r'\1', text, flags=re.IGNORECASE):
\* matches are found from left to right and do not overlap
RECURSIVE RemoveSection(_)
RemoveSection(t) ==
    IF Len(t) < 3 THEN t
    ELSE IF /\ t[1].w \in SectionWords /\ t[1].n = Len(t[1].w)
            /\ IsSpace(t[2])
            /\ t[3].w \in Numbers /\ t[3].n = Len(t[3].w)
    THEN <<t[3]>> \o RemoveSection(SubSeq(t, 4, Len(t)))
    ELSE <<t[1]>> \o RemoveSection(Tail(t))

\* re.sub of a literal phrase: every occurrence, from left to right
RECURSIVE ReplaceAll(_, _, _)
ReplaceAll(t, phrase, by) ==
    IF Len(t) < Len(phrase) THEN t
    ELSE IF SubSeq(t, 1, Len(phrase)) = phrase
    THEN by \o ReplaceAll(SubSeq(t, Len(phrase) + 1, Len(t)), phrase, by)
    ELSE <<t[1]>> \o ReplaceAll(Tail(t), phrase, by)

normalize_legal_terms(text) ==
    LET t1 == RemoveDots(text)
        t2 == RemoveSection(t1)
        t3 == ReplaceAll(t2, Sentence(<<"Indian", "Penal", "Code">>),
                         Sentence(<<"IPC">>))
        t4 == ReplaceAll(t3,
                  Sentence(<<"Code", "of", "Criminal", "Procedure">>),
                  Sentence(<<"CrPC">>))
        t5 == ReplaceAll(t4, Sentence(<<"Income", "Tax", "Act">>),
                         Sentence(<<"IT", "Act">>))
    IN  t5

(***************************************************************************)
(* Field values of a case record: a string, JSON null, or a list of field  *)
(* values.  A case record is a function from the keys it has to their      *)
(* values; NotARecord is an argument that is no mapping at all.            *)
(***************************************************************************)
Str(t) == [kind |-> "str", text |-> t]
Null == [kind |-> "none"]
List(items) == [kind |-> "list", items |-> items]
\* a mapping: its entries [key, value] in insertion order
Dict(entries) == [kind |-> "dict", entries |-> entries]
NotARecord == Null
IsDict(case) == "kind" \notin DOMAIN case

\* Python truthiness of a field value
Truthy(v) ==
    CASE v.kind = "none" -> FALSE
      [] v.kind = "str" -> v.text # <<>>
      [] v.kind = "list" -> v.items # <<>>
      [] v.kind = "dict" -> v.entries # <<>>

\* case.get(key, '')
Get(case, key) == IF key \in DOMAIN case THEN case[key] ELSE Str(<<>>)

\* case.get(k1, '') or case.get(k2, ''), and case.get(k1, '') for one key
GetOr(case, keys) ==
    IF Len(keys) = 1 \/ Truthy(Get(case, keys[1]))
    THEN Get(case, keys[1])
    ELSE Get(case, keys[2])

\* ', '.join(texts)
RECURSIVE JoinComma(_)
JoinComma(texts) ==
    IF texts = <<>> THEN <<>>
    ELSE IF Len(texts) = 1 THEN texts[1]
    ELSE texts[1] \o <<Word(","), Sp(1)>> \o JoinComma(Tail(texts))

\* repr(value), for strings without quotes or backslashes
RECURSIVE PyRepr(_)
PyRepr(value) ==
    CASE value.kind = "none" -> <<Word("None")>>
      [] value.kind = "str" -> <<Word("'")>> \o value.text \o <<Word("'")>>
      [] value.kind = "list" ->
             <<Word("[")>>
                 \o JoinComma([i \in 1..Len(value.items) |->
                                  PyRepr(value.items[i])])
                 \o <<Word("]")>>
      [] value.kind = "dict" ->
             <<Word("{")>>
                 \o JoinComma([i \in 1..Len(value.entries) |->
                                  <<Word("'"), Word(value.entries[i].key),
                                    Word("':"), Sp(1)>>
                                      \o PyRepr(value.entries[i].value)])
                 \o <<Word("}")>>

\* str(value)
PyStr(value) == IF value.kind = "str" THEN value.text ELSE PyRepr(value)

\* the flattening that takes the values of a mapping as flatten_field takes
\* the items of a list
RECURSIVE flatten_field_Deep(_)
RECURSIVE FlattenItems_Deep(_)
flatten_field_Deep(value) ==
    CASE value.kind = "none" -> <<>>
      [] value.kind = "str" -> value.text
      [] value.kind = "list" -> Join(FlattenItems_Deep(value.items))
      [] value.kind = "dict" ->
             Join(FlattenItems_Deep([i \in 1..Len(value.entries) |->
                                        value.entries[i].value]))
FlattenItems_Deep(items) ==
    IF items = <<>> THEN <<>>
    ELSE LET flattened == flatten_field_Deep(Head(items))
         IN  (IF ~IsBlank(flattened) THEN <<flattened>> ELSE <<>>)
                 \o FlattenItems_Deep(Tail(items))

RECURSIVE flatten_field(_)
RECURSIVE FlattenItems(_)
flatten_field(value) ==
    CASE value.kind = "none" -> <<>>
      [] value.kind = "str" -> value.text
      [] value.kind = "list" -> Join(FlattenItems(value.items))
      [] value.kind = "dict" ->
             LET kept == SelectSeq(value.entries,
                                   LAMBDA e : Truthy(e.value))
             IN  Join([i \in 1..Len(kept) |-> PyStr(kept[i].value)])
\* the parts list of the list branch
FlattenItems(items) ==
    IF items = <<>> THEN <<>>
    ELSE LET flattened == flatten_field(Head(items))
         IN  (IF ~IsBlank(flattened) THEN <<flattened>> ELSE <<>>)
                 \o FlattenItems(Tail(items))

Unknown == Sentence(<<"Unknown">>)
UnknownLegalIssue == Sentence(<<"Unknown", "legal", "issue">>)

\* the nine weighted fields in the order prepare_text_for_embedding takes
\* them: the keys read, the values skipped, the cap and the repetitions
WeightedFields ==
    << [keys |-> <<"legal_issues", "legalissues">>, skip |-> {},
        cap |-> 800, weight |-> 4],
       [keys |-> <<"primary_legal_issue", "primarylegalissue">>,
        skip |-> {Unknown, UnknownLegalIssue}, cap |-> 400, weight |-> 4],
       [keys |-> <<"summary">>, skip |-> {Unknown},
        cap |-> 1000, weight |-> 3],
       [keys |-> <<"key_legal_points", "keylegalpoints">>, skip |-> {},
        cap |-> 800, weight |-> 3],
       [keys |-> <<"facts">>, skip |-> {Unknown},
        cap |-> 600, weight |-> 2],
       [keys |-> <<"judgment_reasoning", "judgmentreasoning">>,
        skip |-> {Unknown}, cap |-> 600, weight |-> 2],
       [keys |-> <<"acts_referred">>, skip |-> {},
        cap |-> 400, weight |-> 2],
       [keys |-> <<"arguments">>, skip |-> {Unknown},
        cap |-> 500, weight |-> 1],
       [keys |-> <<"precedents_cited">>, skip |-> {},
        cap |-> 400, weight |-> 1] >>

\* the three metadata tags: the key read, the values skipped and the label
MetadataFields ==
    << [key |-> "case_type", skip |-> {Unknown}, label |-> "Type:"],
       [key |-> "predicted_outcome", skip |-> {}, label |-> "Outcome:"],
       [key |-> "court", skip |-> {}, label |-> "Court:"] >>

\* [x] * n
Times(x, n) == [i \in 1..n |-> x]

\* a composer that adds every chunk once, whatever the weight of its field
WeightedParts_Once(case, f) ==
    LET value == GetOr(case, f.keys)
    IN  IF Truthy(value) /\ value \notin {Str(u) : u \in f.skip}
        THEN LET normalized ==
                     normalize_legal_terms(Cut(flatten_field(value), f.cap))
             IN  IF ~IsBlank(normalized) THEN <<normalized>> ELSE <<>>
        ELSE <<>>

\* a composer that normalizes the flattened value first and cuts it to the
\* cap afterwards
WeightedParts_CapAfter(case, f) ==
    LET value == GetOr(case, f.keys)
    IN  IF Truthy(value) /\ value \notin {Str(u) : u \in f.skip}
        THEN LET normalized ==
                     Cut(normalize_legal_terms(flatten_field(value)), f.cap)
             IN  IF ~IsBlank(normalized)
                 THEN Times(normalized, f.weight) ELSE <<>>
        ELSE <<>>

\* what one weighted field adds to parts
WeightedParts(case, f) ==
    LET value == GetOr(case, f.keys)
    IN  IF Truthy(value) /\ value \notin {Str(u) : u \in f.skip}
        THEN LET normalized ==
                     normalize_legal_terms(Cut(flatten_field(value), f.cap))
             IN  IF ~IsBlank(normalized)
                 THEN Times(normalized, f.weight) ELSE <<>>
        ELSE <<>>

\* what one metadata tag adds to parts
MetadataParts(case, m) ==
    LET value == Get(case, m.key)
    IN  IF Truthy(value) /\ value \notin {Str(u) : u \in m.skip}
        THEN << <<Word(m.label), Sp(1)>> \o value.text >>
        ELSE <<>>

\* parts.extend, for each of a sequence of lists in turn
RECURSIVE Extend(_)
Extend(lists) ==
    IF lists = <<>> THEN <<>> ELSE Head(lists) \o Extend(Tail(lists))

\* the list parts when the last metadata tag has been looked at
Parts(case) ==
    Extend([i \in 1..Len(WeightedFields) |->
                WeightedParts(case, WeightedFields[i])])
        \o Extend([i \in 1..Len(MetadataFields) |->
                       MetadataParts(case, MetadataFields[i])])

MaxCompositeChars == 10000

EmptyCase == Sentence(<<"Empty", "case">>)

\* str(case.get('case_id', 'unknown'))
CaseIdText(case) ==
    IF "case_id" \notin DOMAIN case THEN Sentence(<<"unknown">>)
    ELSE IF case["case_id"].kind = "none" THEN Sentence(<<"None">>)
    ELSE case["case_id"].text

NoExtractableText(case) ==
    Sentence(<<"Case">>) \o <<Sp(1)>> \o CaseIdText(case) \o <<Sp(1)>>
        \o Sentence(<<"-", "No", "extractable", "text">>)

prepare_text_for_embedding(case) ==
    IF ~IsDict(case) \/ DOMAIN case = {} THEN EmptyCase
    ELSE LET joined == Join(Parts(case))
             combined == IF CharLen(joined) > MaxCompositeChars
                         THEN Cut(joined, MaxCompositeChars) ELSE joined
         IN  IF IsBlank(combined) THEN NoExtractableText(case)
             ELSE combined

(***************************************************************************)
(* The text functions as a state machine of their own: a request holds the *)
(* argument of one call, and the call leaves its result in last.           *)
(***************************************************************************)
\* the longest text handed to normalize_legal_terms, in words
MaxWords == 4

Vocabulary ==
    {"Section", "302", "Indian", "Penal", "Code", "of", "Criminal",
     "Procedure", "Income", "Tax", "Act", "I.P.C", "murder"}

RECURSIVE WordSeqs(_)
WordSeqs(n) ==
    IF n = 0 THEN {<<>>}
    ELSE LET shorter == WordSeqs(n - 1)
         IN  shorter \cup
             {Append(ws, w) : ws \in {x \in shorter : Len(x) = n - 1},
                              w \in Vocabulary}

NormalizeRequests ==
    {[op |-> "normalize_legal_terms", text |-> Sentence(ws)] :
        ws \in WordSeqs(MaxWords) \ {<<>>}}

\* one call of normalize_legal_terms, and a second call on its result
NormalizeText ==
    /\ req.op = "normalize_legal_terms"
    /\ last.op = "init"
    /\ last' = [op |-> "normalize_legal_terms",
                out |-> normalize_legal_terms(req.text),
                again |-> normalize_legal_terms(
                              normalize_legal_terms(req.text))]
    /\ UNCHANGED <<judgments, cache, engine, req>>

\* the lengths of the one-word texts put into fields, in characters: one
\* below every cap, one above every cap
ShortLen == 5
LongLen == 2000

Run(w, n) == Str(<<Tok(w, n)>>)

\* a text longer than every cap that normalization makes shorter
SectionThenLong ==
    Sentence(<<"Section", "302">>) \o <<Sp(1), Tok("c", LongLen)>>

\* the string values tried in a field
StringValues ==
    {Str(<<>>), Str(<<Sp(2)>>), Str(Unknown), Str(UnknownLegalIssue),
     Str(Sentence(<<"Section", "302">>)), Str(SectionThenLong)}
        \cup {Run(w, n) : w \in {"a", "b"}, n \in {ShortLen, LongLen}}

\* the values tried in a weighted field
FieldValues ==
    StringValues \cup
        {Null, List(<<>>),
         List(<<Run("a", ShortLen),
                List(<<Str(<<Sp(1)>>), Str(Unknown)>>)>>),
         Dict(<<[key |-> "k", value |-> List(<<Run("a", ShortLen)>>)]>>)}

WeightedKeys ==
    UNION {{WeightedFields[i].keys[j] : j \in 1..Len(WeightedFields[i].keys)}
               : i \in 1..Len(WeightedFields)}
MetadataKeys == {MetadataFields[i].key : i \in 1..Len(MetadataFields)}

\* a key of a record and a value for it, or the key taken out of the record
Absent == [kind |-> "absent"]
Changes ==
    {[key |-> k, value |-> v] : k \in WeightedKeys, v \in FieldValues}
        \cup {[key |-> k, value |-> v] :
                  k \in MetadataKeys, v \in StringValues \cup {Null}}
        \cup {[key |-> "case_id", value |-> v] :
                  v \in {Null, Str(Sentence(<<"X">>))}}
        \cup {[key |-> k, value |-> Absent] :
                  k \in WeightedKeys \cup MetadataKeys \cup {"case_id"}}

With(case, ch) ==
    IF ch.value = Absent
    THEN [k \in DOMAIN case \ {ch.key} |-> case[k]]
    ELSE [k \in DOMAIN case \cup {ch.key} |->
              IF k = ch.key THEN ch.value ELSE case[k]]

EmptyRecord == [k \in {} |-> Null]
\* every weighted field longer than its cap
FullRecord ==
    [k \in {WeightedFields[i].keys[1] : i \in 1..Len(WeightedFields)} |->
         Run("a", LongLen)]

\* the records handed to prepare_text_for_embedding: an empty or a full
\* record with up to two keys set or taken out
CaseRecords ==
    {With(With(base, c1), c2) :
        base \in {EmptyRecord, FullRecord}, c1 \in Changes, c2 \in Changes}

ComposeRequests ==
    {[op |-> "prepare_text_for_embedding", case |-> c] :
        c \in CaseRecords \cup {NotARecord}}

\* one call of prepare_text_for_embedding
ComposeText ==
    /\ req.op = "prepare_text_for_embedding"
    /\ last.op = "init"
    /\ last' = [op |-> "prepare_text_for_embedding",
                out |-> prepare_text_for_embedding(req.case)]
    /\ UNCHANGED <<judgments, cache, engine, req>>

InitText ==
    /\ judgments = MissingFile
    /\ cache = NoCache
    /\ engine = NoEngine
    /\ req \in NormalizeRequests \cup ComposeRequests
    /\ last = [op |-> "init"]

NextText == NormalizeText \/ ComposeText

SpecText == InitText /\ [][NextText]_vars

(***************************************************************************)
(* C17: normalize_legal_terms is idempotent: applying it to its own result *)
(* gives that result again, for every text, also one in which the word     *)
(* "Section" or a statute name is repeated or is made by an earlier        *)
(* rewrite.                                                                *)
(***************************************************************************)
C17_NormalizeIdempotent ==
    last.op = "normalize_legal_terms" => last.again = last.out

\* the number of chunks of a text that are made of the word w, and the place
\* of the first of them (0 when there is none)
CountWord(t, w) == Cardinality({k \in 1..Len(t) : t[k].w = w})
FirstWord(t, w) ==
    IF CountWord(t, w) = 0 THEN 0
    ELSE CHOOSE k \in 1..Len(t) :
             /\ t[k].w = w
             /\ \A m \in 1..(k - 1) : t[m].w # w

Composed == last.op = "prepare_text_for_embedding"
Fillers == {"a", "b"}
FillLens == {ShortLen, LongLen}
PrimaryKey(i) == WeightedFields[i].keys[1]

\* the record in which only weighted field i is populated
Alone(i, w, n) == [k \in {PrimaryKey(i)} |-> Run(w, n)]
\* the record in which only weighted fields i and j are populated, with
\* different texts of the same length
Both(i, wi, j, wj, n) ==
    [k \in {PrimaryKey(i), PrimaryKey(j)} |->
         IF k = PrimaryKey(i) THEN Run(wi, n) ELSE Run(wj, n)]

(***************************************************************************)
(* C18 as stated: of two weighted fields populated with texts of the same  *)
(* raw length, the field that comes first in the priority list has its     *)
(* chunk earlier in the composite and repeated strictly more often.        *)
(***************************************************************************)
C18_StrictlyMoreRepeated ==
    Composed =>
        \A i, j \in 1..Len(WeightedFields), wi, wj \in Fillers, n \in FillLens :
            (i < j /\ wi # wj /\ req.case = Both(i, wi, j, wj, n)) =>
                /\ FirstWord(last.out, wi) < FirstWord(last.out, wj)
                /\ CountWord(last.out, wi) > CountWord(last.out, wj)

(***************************************************************************)
(* C18, amended: a weighted field populated alone has its chunk at the     *)
(* start of the composite, repeated as often as its weight says; of two    *)
(* populated fields the one earlier in the priority list comes first in    *)
(* the composite and is repeated at least as often, strictly more often    *)
(* exactly when the two weights differ.                                    *)
(***************************************************************************)
C18_WeightOrdering ==
    Composed =>
        /\ \A i \in 1..Len(WeightedFields), w \in Fillers, n \in FillLens :
               req.case = Alone(i, w, n) =>
                   /\ FirstWord(last.out, w) = 1
                   /\ CountWord(last.out, w) = WeightedFields[i].weight
        /\ \A i, j \in 1..Len(WeightedFields), wi, wj \in Fillers,
              n \in FillLens :
               (i < j /\ wi # wj /\ req.case = Both(i, wi, j, wj, n)) =>
                   /\ FirstWord(last.out, wi) = 1
                   /\ FirstWord(last.out, wi) < FirstWord(last.out, wj)
                   /\ CountWord(last.out, wi) = WeightedFields[i].weight
                   /\ CountWord(last.out, wj) = WeightedFields[j].weight
                   /\ CountWord(last.out, wi) >= CountWord(last.out, wj)
                   /\ (CountWord(last.out, wi) > CountWord(last.out, wj))
                          <=> (WeightedFields[i].weight
                                   # WeightedFields[j].weight)

\* summary and facts, both longer than their caps: three chunks, then two
C18_Witness ==
    /\ Composed
    /\ req.case = [summary |-> Run("a", LongLen), facts |-> Run("b", LongLen)]
    /\ CountWord(last.out, "a") = 3
    /\ CountWord(last.out, "b") = 2
    /\ FirstWord(last.out, "a") < FirstWord(last.out, "b")

\* the values the composer is to treat as if the key were not there
AbsentValues == {Str(<<>>), Str(Unknown)}

\* the record without one of its keys
Without(case, key) == With(case, [key |-> key, value |-> Absent])

\* the keys under which the field of a key may be spelled
KeysOf(i) == {WeightedFields[i].keys[n] : n \in 1..Len(WeightedFields[i].keys)}
Spellings(key) ==
    {key} \cup
        UNION {KeysOf(i) : i \in {m \in 1..Len(WeightedFields) :
                                      key \in KeysOf(m)}}

(***************************************************************************)
(* C19: a weighted field or metadata tag whose value is the empty string   *)
(* or "Unknown" contributes nothing: the composite is the one the record   *)
(* has without that key.  (Left out are a record with no other key, which  *)
(* without the key is the empty record, and a field that the record holds  *)
(* under both of its spellings.)                                           *)
(***************************************************************************)
C19_UnknownContributesNothing ==
    (Composed /\ IsDict(req.case)) =>
        \A key \in (WeightedKeys \cup MetadataKeys) \cap DOMAIN req.case :
            (/\ req.case[key] \in AbsentValues
             /\ DOMAIN req.case # {key}
             /\ Spellings(key) \cap DOMAIN req.case = {key}) =>
                last.out = prepare_text_for_embedding(Without(req.case, key))

\* no weighted field and no metadata tag of the record holds text: each is
\* missing, null, empty, whitespace, or the sentinel "Unknown"
NoFieldYieldsText(case) ==
    \A key \in (WeightedKeys \cup MetadataKeys) \cap DOMAIN case :
        \/ IsBlank(flatten_field(case[key]))
        \/ case[key] = Str(Unknown)

(***************************************************************************)
(* C20: for every case record the composite has at most 10,000 characters  *)
(* and is never empty or whitespace-only; when no field yields text it is  *)
(* exactly "Case <case_id> - No extractable text".                         *)
(***************************************************************************)
C20_BoundedNeverBlank ==
    (Composed /\ IsDict(req.case)) =>
        /\ CharLen(last.out) <= MaxCompositeChars
        /\ ~IsBlank(last.out)
        /\ NoFieldYieldsText(req.case) =>
               last.out = NoExtractableText(req.case)

(***************************************************************************)
(* The composer as a method of an engine: calls of                         *)
(* prepare_text_for_embedding on one case, with operations that change the *)
(* engine in between.                                                      *)
(***************************************************************************)
\* the number of times the case is composed
MaxCalls == 2

\* a composer that answers from the engine's state once it has a matrix
Compose_FromEngine(self, case) ==
    [self |-> self, case |-> case,
     out |-> IF IsNone(self.embeddings)
             THEN prepare_text_for_embedding(case) ELSE EmptyCase]

\* self.prepare_text_for_embedding(case): the engine and the case after the
\* call, and the string returned
Compose(self, case) ==
    [self |-> self, case |-> case, out |-> prepare_text_for_embedding(case)]

\* the records composed: an empty or a full record with one key set or
\* taken out, and an argument that is no record
PureCases ==
    {With(base, c) : base \in {EmptyRecord, FullRecord}, c \in Changes}
        \cup {NotARecord}

InitPure ==
    /\ engine \in RankEngines
    /\ req \in {[op |-> "prepare_text_for_embedding", case |-> c] :
                   c \in PureCases}
    /\ judgments = CorpusFile(engine.cases)
    /\ cache = NoCache
    /\ last = [op |-> "init", calls |-> 0, moved |-> FALSE]

\* one call of prepare_text_for_embedding on the case
ComposeCase ==
    /\ last.calls < MaxCalls
    /\ LET r == Compose(engine, req.case)
       IN  /\ last' = [op |-> "prepare_text_for_embedding",
                       calls |-> last.calls + 1, moved |-> last.moved,
                       out |-> r.out,
                       first |-> IF last.calls = 0 THEN r.out
                                 ELSE last.first]
           /\ engine' = r.self
           /\ req' = [req EXCEPT !.case = r.case]
    /\ UNCHANGED <<judgments, cache>>

\* another operation of the engine between two calls: compute_embeddings
OtherOperation ==
    /\ \E backendOk \in BOOLEAN :
           engine' = compute_embeddings(engine, backendOk).self
    /\ last' = [last EXCEPT !.moved = (last.calls > 0 /\ engine' # engine)
                                          \/ last.moved]
    /\ UNCHANGED <<judgments, cache, req>>

NextPure == ComposeCase \/ OtherOperation

SpecPure == InitPure /\ [][NextPure]_vars

C22_EmptyCorpusNotFatal ==
    (last.op = "similarity" /\ last.accessed /\ judgments.state # "ok") =>
        /\ engine.exists => engine.cases = <<>>
        /\ last.outcome # "IndexError"

\* the access took the compute path (compute_embeddings, then
\* save_embeddings) and returned without raising
ComputeStep == Access /\ ~last'.loaded /\ last'.outcome = "ok"

(***************************************************************************)
(* C23: every compute step that completes without raising leaves the       *)
(* engine with a matrix of one row per loaded case, row i for case i, and  *)
(* a cache file holding that matrix, whatever the size of the corpus.      *)
(***************************************************************************)
C23_ComputeLeavesValid ==
    [][ComputeStep =>
           /\ ValidEngine(engine')
           /\ cache'.state = "ok"
           /\ cache'.embeddings = engine'.embeddings]_vars

(***************************************************************************)
(* C24: a cache file written by save_embeddings names the model the engine *)
(* was configured with, which is the model that computed the matrix, and   *)
(* its case count is the number of rows of the matrix it holds.            *)
(***************************************************************************)
C24_CacheRecordsModel ==
    cache.state = "ok" =>
        /\ cache.model_name = cache.embeddings.by
        /\ cache.num_cases = Len(cache.embeddings.rows)

(***************************************************************************)
(* flatten_field on values nested up to MaxDepth deep, each list or        *)
(* mapping with up to MaxItems members.                                    *)
(***************************************************************************)
MaxDepth == 2
MaxItems == 2

Scalars == {Null, Str(<<>>), Str(<<Sp(1)>>), Run("a", 1), Run("b", 1)}

\* the keys of a mapping, by position
KeyAt(i) == IF i = 1 THEN "k" ELSE "m" \o ToString(i)

RECURSIVE SeqsUpTo(_, _)
SeqsUpTo(S, n) ==
    IF n = 0 THEN {<<>>}
    ELSE LET shorter == SeqsUpTo(S, n - 1)
         IN  shorter \cup
             {Append(q, x) : q \in {y \in shorter : Len(y) = n - 1}, x \in S}

RECURSIVE Nested(_)
Nested(depth) ==
    IF depth = 0 THEN Scalars
    ELSE LET inner == Nested(depth - 1)
             members == SeqsUpTo(inner, MaxItems)
         IN  inner
             \cup {List(q) : q \in members}
             \cup {Dict([i \in 1..Len(q) |->
                            [key |-> KeyAt(i), value |-> q[i]]]) :
                       q \in members}

InitFlat ==
    /\ judgments = MissingFile
    /\ cache = NoCache
    /\ engine = NoEngine
    /\ req \in {[op |-> "flatten_field", value |-> v] : v \in Nested(MaxDepth)}
    /\ last = [op |-> "init"]

\* one call of flatten_field
FlattenValue ==
    /\ last.op = "init"
    /\ last' = [op |-> "flatten_field", out |-> flatten_field(req.value)]
    /\ UNCHANGED <<judgments, cache, engine, req>>

NextFlat == FlattenValue

SpecFlat == InitFlat /\ [][NextFlat]_vars

(***************************************************************************)
(* C25: flatten_field reduces a value nested to any depth to the           *)
(* single-space join of its leaves in traversal order, a mapping's values  *)
(* being flattened in turn like the items of a list.                       *)
(***************************************************************************)
C25_FlattenRecursive ==
    last.op = "flatten_field" => last.out = flatten_field_Deep(req.value)

\* the order, repetitions and caps of the weighted fields as C26 lists them
ListedFields ==
    << [key |-> "legal_issues", times |-> 4, cap |-> 800],
       [key |-> "primary_legal_issue", times |-> 4, cap |-> 400],
       [key |-> "summary", times |-> 3, cap |-> 1000],
       [key |-> "key_legal_points", times |-> 3, cap |-> 800],
       [key |-> "facts", times |-> 2, cap |-> 600],
       [key |-> "judgment_reasoning", times |-> 2, cap |-> 600],
       [key |-> "acts_referred", times |-> 2, cap |-> 400],
       [key |-> "arguments", times |-> 1, cap |-> 500],
       [key |-> "precedents_cited", times |-> 1, cap |-> 400] >>
ListedKeys == {ListedFields[i].key : i \in 1..Len(ListedFields)}

\* the chunks C26 lists for a record, in its order
ListedChunks(case) ==
    Extend([i \in 1..Len(ListedFields) |->
               IF ListedFields[i].key \in DOMAIN case
               THEN Times(normalize_legal_terms(
                              Cut(flatten_field(case[ListedFields[i].key]),
                                  ListedFields[i].cap)),
                          ListedFields[i].times)
               ELSE <<>>])

\* a record of weighted fields only (and perhaps a case_id), at least one,
\* each holding text other than a sentinel
PlainRecord(case) ==
    /\ IsDict(case)
    /\ DOMAIN case \subseteq ListedKeys \cup {"case_id"}
    /\ DOMAIN case \cap ListedKeys # {}
    /\ \A key \in DOMAIN case \cap ListedKeys :
           /\ ~IsBlank(flatten_field(case[key]))
           /\ case[key] \notin {Str(Unknown), Str(UnknownLegalIssue)}

(***************************************************************************)
(* C26: the composite of a record of weighted fields is the single-space   *)
(* join of the chunks of its present fields in the listed order, each      *)
(* chunk repeated 4, 4, 3, 3, 2, 2, 2, 1, 1 times and being the normalized *)
(* form of the flattened value cut to the field's cap, the whole cut to    *)
(* the length limit of the composite.                                      *)
(***************************************************************************)
C26_OrderWeightCap ==
    (Composed /\ PlainRecord(req.case)) =>
        last.out = Cut(Join(ListedChunks(req.case)), MaxCompositeChars)

\* a summary that is cut to its cap and then normalized, three times, before
\* facts cut to its cap, twice
C26_Witness ==
    /\ Composed
    /\ req.case = [summary |-> Str(SectionThenLong),
                   facts |-> Run("b", LongLen)]
    /\ last.out = Join(Times(<<Word("302"), Sp(1), Tok("c", 988)>>, 3)
                           \o Times(<<Tok("b", 600)>>, 2))

(***************************************************************************)
(* LocalPDFProcessor.process_folder, one PDF at a time.  A PDF is its      *)
(* stem; an extracted case is the record the model returned for it.  The   *)
(* corpus file holds the records in `judgments`, `engine` is the           *)
(* processor's stats, `req` the folder being processed and `last` the      *)
(* locals of process_folder.                                               *)
(***************************************************************************)
MaxRuns == 2
CheckpointEvery == 10

\* the stems of the PDFs the folders hold
Stems == {"p1", "p2"}

\* the case_id of an extraction: the one the prompt names, or the default
\* _post_process gives when the answer has none
ExtractedIds(stem) == {stem, "Unknown"}
\* what process_pdf returns for a PDF that was extracted
Extracted(stem, id) == [case_id |-> id, local_pdf_path |-> stem]

\* a Python dict as its entries in insertion order
DictKeys(d) == {d[i].key : i \in 1..Len(d)}
DictValues(d) == [i \in 1..Len(d) |-> d[i].value]
\* d[key] = value
DictSet(d, key, value) ==
    IF key \in DictKeys(d)
    THEN [i \in 1..Len(d) |->
             IF d[i].key = key THEN [key |-> key, value |-> value] ELSE d[i]]
    ELSE Append(d, [key |-> key, value |-> value])

\* {case['case_id']: case for case in cases}
RECURSIVE ByCaseId(_)
ByCaseId(cases) ==
    IF cases = <<>> THEN <<>>
    ELSE LET c == cases[Len(cases)]
         IN  DictSet(ByCaseId(SubSeq(cases, 1, Len(cases) - 1)), c.case_id, c)

\* load_existing_cases: the records of a readable file by case_id, and an
\* empty dict for a file that is missing or cannot be read
load_existing_cases(file) ==
    IF file.state = "ok" THEN ByCaseId(file.cases) ELSE <<>>

\* save_cases: the file rewritten with `cases`, or cut short when the dump
\* fails (and the exception leaves process_folder)
save_cases(cases, ok) == IF ok THEN CorpusFile(cases) ELSE PartialFile

NoStats == [total |-> 0, success |-> 0, failed |-> 0, skipped |-> 0]
NoLocals ==
    [pc |-> "init", runs |-> 0, idx |-> 0, existing_cases |-> <<>>,
     new_cases |-> <<>>, sent |-> {}, skipped |-> {}, before |-> <<>>]

InitFolder ==
    /\ judgments \in {MissingFile, PartialFile}
    /\ cache = NoCache
    /\ engine = [stats |-> NoStats]
    /\ req = [op |-> "none", pdf_files |-> <<>>]
    /\ last = NoLocals

\* process_folder up to the loop: the folder is listed and the corpus loaded
folder_begin ==
    /\ last.pc \in {"init", "returned"}
    /\ last.runs < MaxRuns
    /\ \E pdf_files \in NoDupSeqs(Stems) :
           req' = [op |-> "process_folder", pdf_files |-> pdf_files]
    /\ last' = [NoLocals EXCEPT !.pc = "loop", !.runs = last.runs + 1,
                                !.idx = 1,
                                !.existing_cases = load_existing_cases(judgments),
                                !.before = judgments.cases]
    /\ UNCHANGED <<judgments, cache, engine>>

\* one turn of the loop: a PDF whose stem is a key of existing_cases is
\* skipped; any other goes to process_pdf, which returns nothing for a PDF
\* without text (nothing is sent) or when both models fail, and a record
\* otherwise; every CheckpointEvery new cases the corpus is saved
folder_pdf ==
    /\ last.pc = "loop"
    /\ last.idx <= Len(req.pdf_files)
    /\ LET case_id == req.pdf_files[last.idx] IN
       IF case_id \in DictKeys(last.existing_cases)
       THEN /\ engine' = [engine EXCEPT !.stats.skipped = @ + 1]
            /\ last' = [last EXCEPT !.idx = @ + 1,
                                    !.skipped = @ \cup {case_id}]
            /\ UNCHANGED <<judgments, cache, req>>
       ELSE \E hasText \in BOOLEAN, result \in {Null} \cup
                    {Extracted(case_id, id) : id \in ExtractedIds(case_id)},
               saveOk \in BOOLEAN :
            /\ ~hasText => result = Null
            /\ LET new_cases == IF result # Null
                                THEN Append(last.new_cases, result)
                                ELSE last.new_cases
                   existing_cases == IF result # Null
                                     THEN DictSet(last.existing_cases,
                                                  case_id, result)
                                     ELSE last.existing_cases
                   saves == Len(new_cases) % CheckpointEvery = 0
                                /\ new_cases # <<>>
               IN  /\ engine' =
                          [engine EXCEPT
                              !.stats.total = @ + 1,
                              !.stats.success = IF result # Null THEN @ + 1 ELSE @,
                              !.stats.failed = IF result = Null THEN @ + 1 ELSE @]
                   /\ ~saves => saveOk
                   /\ judgments' = IF saves
                                   THEN save_cases(DictValues(existing_cases),
                                                   saveOk)
                                   ELSE judgments
                   /\ last' = [last EXCEPT
                                  !.pc = IF saveOk THEN "loop" ELSE "raised",
                                  !.idx = @ + 1,
                                  !.new_cases = new_cases,
                                  !.existing_cases = existing_cases,
                                  !.sent = IF hasText THEN @ \cup {case_id}
                                           ELSE @]
                   /\ UNCHANGED <<cache, req>>

\* after the loop: the corpus is saved when the run extracted anything
folder_end ==
    /\ last.pc = "loop"
    /\ last.idx > Len(req.pdf_files)
    /\ \E saveOk \in BOOLEAN :
        /\ last.new_cases = <<>> => saveOk
        /\ judgments' = IF last.new_cases # <<>>
                        THEN save_cases(DictValues(last.existing_cases), saveOk)
                        ELSE judgments
        /\ last' = [last EXCEPT !.pc = IF saveOk THEN "returned" ELSE "raised"]
    /\ UNCHANGED <<cache, engine, req>>

NextFolder == folder_begin \/ folder_pdf \/ folder_end

SpecFolder == InitFolder /\ [][NextFolder]_vars

\* the case_ids of the records a file held
CaseIdsIn(cases) == {cases[i].case_id : i \in 1..Len(cases)}

(***************************************************************************)
(* C27: when process_folder has returned, no PDF whose stem was a case_id  *)
(* of the corpus was sent for extraction, every record the corpus held     *)
(* before the run is still in it, and every record extracted during the    *)
(* run is in it.                                                           *)
(***************************************************************************)
C27_FolderResumes ==
    last.pc = "returned" =>
        /\ last.sent \cap CaseIdsIn(last.before) = {}
        /\ Range(last.before) \subseteq Range(judgments.cases)
        /\ Range(last.new_cases) \subseteq Range(judgments.cases)

(***************************************************************************)
(* EntityExtractor.extract, one API attempt at a time.  `engine` is the    *)
(* extractor (the number of its clients, current_idx and stats), `req`     *)
(* the call being served and `last` its locals, with what the attempts     *)
(* made so far have used.                                                  *)
(***************************************************************************)
MaxClients == 4
MaxExtracts == 3
MinTextChars == 100
MaxRetries == 3

\* the lengths of pdf_text tried: empty, just too short, just long enough
TextLens == {0, MinTextChars - 1, MinTextChars}
\* what one API attempt may do: answer with a JSON object, fail with a
\* rate-limit error, fail otherwise (an answer that does not parse included)
AttemptOutcomes == {"ok", "429", "error"}

\* EntityExtractor.__init__ with n keys
EntityExtractor(n) ==
    [clients |-> n, current_idx |-> 0,
     stats |-> [total |-> 0, success |-> 0, failed |-> 0,
                per_key |-> [i \in 0..(n - 1) |-> 0]]]

\* a client that stays on the same key
get_next_client_Stay(self) == [self |-> self, idx |-> self.current_idx]

\* _get_next_client: the client at current_idx, and the index moved on
get_next_client(self) ==
    [self |-> [self EXCEPT !.current_idx = (@ + 1) % self.clients],
     idx |-> self.current_idx]

\* a failure that is not counted
CountFailed_Not(self) == self

\* self.stats['failed'] += 1
CountFailed(self) == [self EXCEPT !.stats.failed = @ + 1]

\* max_retries = min(3, len(self.clients))
max_retries(self) == Min(MaxRetries, self.clients)

RECURSIVE SumTo(_, _)
SumTo(f, n) == IF n < 0 THEN 0 ELSE f[n] + SumTo(f, n - 1)
\* sum(self.stats['per_key'].values())
PerKeySum(self) == SumTo(self.stats.per_key, self.clients - 1)

NoCall ==
    [pc |-> "idle", calls |-> 0, attempt |-> 0, used |-> <<>>,
     result |-> "none", before |-> 0, attempts |-> 0, prev |-> -1]

InitExtract ==
    /\ judgments = MissingFile
    /\ cache = NoCache
    /\ engine \in {EntityExtractor(n) : n \in 1..MaxClients}
    /\ req = [op |-> "none", pdf_text |-> 0]
    /\ last = NoCall

\* extract up to the loop: the call is counted, and a text that is empty or
\* shorter than MinTextChars is counted as failed and answered with None
extract_begin ==
    /\ last.pc \in {"idle", "returned"}
    /\ last.calls < MaxExtracts
    /\ \E pdf_text \in TextLens :
        /\ req' = [op |-> "extract", pdf_text |-> pdf_text]
        /\ LET counted == [engine EXCEPT !.stats.total = @ + 1] IN
           IF pdf_text = 0 \/ pdf_text < MinTextChars
           THEN /\ engine' = CountFailed(counted)
                /\ last' = [last EXCEPT !.pc = "returned", !.calls = @ + 1,
                                        !.attempt = 0, !.used = <<>>,
                                        !.result = "None",
                                        !.before = engine.stats.success]
           ELSE /\ engine' = counted
                /\ last' = [last EXCEPT !.pc = "loop", !.calls = @ + 1,
                                        !.attempt = 0, !.used = <<>>,
                                        !.result = "none",
                                        !.before = engine.stats.success]
    /\ UNCHANGED <<judgments, cache>>

\* one turn of the retry loop: the next client is taken and counted, the
\* API is called; an answer is post-processed, counted as a success and
\* returned; an error is retried while attempts remain, and is otherwise
\* counted as failed and answered with None.  The last turn always returns
\* and there is at least one client, so the statements after the loop are
\* never reached.
extract_attempt ==
    /\ last.pc = "loop"
    /\ last.attempt < max_retries(engine)
    /\ \E outcome \in AttemptOutcomes :
        LET next == get_next_client(engine)
            key_idx == next.idx
            called == [next.self EXCEPT !.stats.per_key[key_idx] = @ + 1]
            tried == [last EXCEPT !.used = Append(@, key_idx),
                                  !.attempts = @ + 1, !.prev = key_idx]
        IN  IF outcome = "ok"
            THEN /\ engine' = [called EXCEPT !.stats.success = @ + 1]
                 /\ last' = [tried EXCEPT !.pc = "returned",
                                          !.result = "record"]
            ELSE IF last.attempt < max_retries(engine) - 1
            THEN /\ engine' = called
                 /\ last' = [tried EXCEPT !.attempt = @ + 1]
            ELSE /\ engine' = CountFailed(called)
                 /\ last' = [tried EXCEPT !.pc = "returned",
                                          !.result = "None"]
    /\ UNCHANGED <<judgments, cache, req>>

NextExtract == extract_begin \/ extract_attempt

SpecExtract == InitExtract /\ [][NextExtract]_vars

(***************************************************************************)
(* C28: when extract has returned, total = success + failed, and the call  *)
(* returned a record exactly when it counted a success.                    *)
(***************************************************************************)
C28_StatsBalance ==
    last.pc = "returned" =>
        /\ engine.stats.total = engine.stats.success + engine.stats.failed
        /\ last.result = "record" <=> engine.stats.success = last.before + 1
        /\ last.result = "None" <=> engine.stats.success = last.before

\* a third call that gave up after the two attempts its two clients allow,
\* the calls before it having succeeded and been refused for a short text
C28_Witness ==
    /\ last.pc = "returned"
    /\ last.calls = MaxExtracts
    /\ last.result = "None"
    /\ Len(last.used) = 2
    /\ engine.stats.success = 1
    /\ engine.stats.failed = 2
    /\ req.pdf_text = MinTextChars

(***************************************************************************)
(* C29: current_idx stays within 0..len(clients)-1; every API attempt uses *)
(* the client after the one the previous attempt used, cyclically, from    *)
(* client 0 on, across retries and across calls; one call makes at most    *)
(* min(3, len(clients)) attempts, never two with the same client; and the  *)
(* per_key counters add up to the number of attempts made.                 *)
(***************************************************************************)
C29_RoundRobin ==
    [][/\ engine'.current_idx \in 0..(engine'.clients - 1)
       /\ Len(last'.used) <= Min(3, engine'.clients)
       /\ NoDup(last'.used)
       /\ PerKeySum(engine') = last'.attempts
       /\ last'.attempts # last.attempts =>
              /\ last'.attempts = last.attempts + 1
              /\ last'.prev = IF last.prev = -1 THEN 0
                              ELSE (last.prev + 1) % engine.clients]_vars

\* four clients: a call that failed on clients 0, 1 and 2, then a call that
\* went on with client 3 and wrapped around to clients 0 and 1
C29_Witness ==
    /\ engine.clients = 4
    /\ last.calls = 2
    /\ last.attempts = 6
    /\ last.used = <<3, 0, 1>>
    /\ engine.current_idx = 2
    /\ engine.stats.per_key = [i \in 0..3 |-> IF i < 2 THEN 2 ELSE 1]

(***************************************************************************)
(* The corpus merge of POST /api/download on records.  A record carries    *)
(* its case_id (NoCaseId when it has none, or an empty one), where it      *)
(* comes from, and, for a downloaded record, whether its other fields pass *)
(* validate_case.                                                          *)
(***************************************************************************)
MaxDownloads == 2
MaxBatch == 2

StoredIds == {NoCaseId} \cup CaseIds
\* the records a corpus file may hold before the first download
CorpusRecords == [case_id : StoredIds, from : {"corpus"}, valid : {TRUE}]
\* the records extract_batch may hand on: with or without a case_id, and,
\* for those with one, with other fields that pass validate_case or not
DownloadRecords ==
    [case_id : StoredIds, from : {"download"}, valid : {TRUE}]
        \cup [case_id : CaseIds, from : {"download"}, valid : {FALSE}]

\* the case_ids of a list of records, in order
IdsOf(cases) == [i \in 1..Len(cases) |-> cases[i].case_id]

\* validate_case: the required fields, case_id among them, are present and
\* not empty, and date and outcome are well-formed
validate_case(case) == case.case_id # NoCaseId /\ case.valid

\* duplicates are kept
remove_duplicates_Keep(cases) == cases

\* remove_duplicates: the first record of every non-empty case_id
RECURSIVE remove_duplicates(_)
remove_duplicates(cases) ==
    IF cases = <<>> THEN <<>>
    ELSE LET before == SubSeq(cases, 1, Len(cases) - 1)
             case == cases[Len(cases)]
         IN  IF case.case_id # NoCaseId /\ case.case_id \notin Range(IdsOf(before))
             THEN Append(remove_duplicates(before), case)
             ELSE remove_duplicates(before)

\* DataPreprocessor.process: the valid records, without duplicates
process(cases) == remove_duplicates(SelectSeq(cases, validate_case))

\* existing_cases + [case for case in processed_cases
\*                   if case.get('case_id') not in existing_ids]
MergeRecords(existing_cases, processed_cases) ==
    LET existing_ids == Range(IdsOf(existing_cases))
        new_cases == SelectSeq(processed_cases,
                               LAMBDA case : case.case_id \notin existing_ids)
    IN  [new_cases |-> new_cases, all_cases |-> existing_cases \o new_cases]

NoDownload ==
    [op |-> "init", n |-> 0, status |-> 0, processed_cases |-> <<>>,
     cases_added |-> 0, total_cases |-> 0]

InitMerge ==
    /\ judgments \in {MissingFile, PartialFile}
                        \cup {CorpusFile(s) : s \in SeqsUpTo(CorpusRecords, MaxBatch)}
    /\ cache = NoCache
    /\ engine = NoEngine
    /\ req = NoReq
    /\ last = NoDownload

\* POST /api/download from the batch extract_batch returned: preprocess it,
\* merge it into the corpus file, delete the cache files and report.  The
\* handler answers 500 when nothing was fetched, when the corpus file cannot
\* be parsed and when the write fails, the file being truncated by then.
download_merge ==
    /\ last.n < MaxDownloads
    /\ \E fetched \in BOOLEAN, extracted_cases \in SeqsUpTo(DownloadRecords, MaxBatch),
          written \in BOOLEAN :
        LET processed_cases == process(extracted_cases)
            existing_cases == IF judgments.state = "ok" THEN judgments.cases
                              ELSE <<>>
            m == MergeRecords(existing_cases, processed_cases)
            failed == [NoDownload EXCEPT !.op = "download", !.n = last.n + 1,
                                         !.status = 500]
        IN  IF ~fetched
            THEN /\ extracted_cases = <<>>
                 /\ written
                 /\ last' = failed
                 /\ UNCHANGED <<judgments, cache>>
            ELSE IF judgments.state = "partial"
            THEN /\ written
                 /\ last' = [failed EXCEPT !.processed_cases = processed_cases]
                 /\ UNCHANGED <<judgments, cache>>
            ELSE IF ~written
            THEN /\ judgments' = PartialFile
                 /\ last' = [failed EXCEPT !.processed_cases = processed_cases]
                 /\ UNCHANGED cache
            ELSE /\ judgments' = CorpusFile(m.all_cases)
                 /\ cache' = Removed(cache)
                 /\ last' = [op |-> "download", n |-> last.n + 1,
                             status |-> 200,
                             processed_cases |-> processed_cases,
                             cases_added |-> Len(m.new_cases),
                             total_cases |-> Len(m.all_cases)]
    /\ UNCHANGED <<engine, req>>

NextMerge == download_merge

SpecMerge == InitMerge /\ [][NextMerge]_vars

(***************************************************************************)
(* C30: a download that answers 200 leaves the corpus file holding the     *)
(* records it held, unchanged and in their order, followed by the          *)
(* processed records whose case_id no record of it carried; case_ids that  *)
(* were unique in it stay unique; and cases_added is the number of records *)
(* the corpus grew by.                                                     *)
(***************************************************************************)
C30_MergeAppends ==
    [][(last'.n # last.n /\ last'.status = 200) =>
          /\ judgments'.state = "ok"
          /\ judgments'.cases =
                 judgments.cases \o
                     SelectSeq(last'.processed_cases,
                               LAMBDA case : \A i \in 1..Len(judgments.cases) :
                                   judgments.cases[i].case_id # case.case_id)
          /\ NoDup(IdsOf(judgments.cases)) => NoDup(IdsOf(judgments'.cases))
          /\ last'.cases_added = Len(judgments'.cases) - Len(judgments.cases)]_vars

\* a second download that brought a record of a case the corpus held and a
\* record of a new case: the old record stays and only the new case is added
C30_Witness ==
    /\ last.n = MaxDownloads
    /\ last.status = 200
    /\ Len(last.processed_cases) = 2
    /\ last.cases_added = 1
    /\ judgments.cases = << [case_id |-> 1, from |-> "corpus", valid |-> TRUE],
                            [case_id |-> 2, from |-> "download", valid |-> TRUE] >>

=============================================================================
